---------------------------- MODULE Spec2Model ----------------------------
(***************************************************************************)
(* The resumable crawl orchestrator of apps/crawler-v3: main and           *)
(* scrapeSubjectCourses (index.ts), the ProgressManager and the manifest   *)
(* helpers (progress.ts), the DataWriter's interning encoder (writer.ts).  *)
(*                                                                         *)
(* Execution model.  The crawler is one Node.js process.  Everything the   *)
(* coordinator (main and the for-await loop of scrapeSubjectCourses) does  *)
(* between two awaits on the pool is synchronous code or promise           *)
(* continuations, so timers and network responses of worker tasks are      *)
(* delivered only while the coordinator is suspended in the pool's         *)
(* Promise.race (pc = "await_race").  The coordinator is therefore a       *)
(* sequential program with a program counter, one step per disk write,     *)
(* and the task events are guarded by pc = "await_race".  The process can  *)
(* be killed at any step (Crash) and started again (Restart); only the     *)
(* files survive.                                                          *)
(***************************************************************************)
EXTENDS Integers, Sequences, FiniteSets, TLC

(***************************************************************************)
(* Bounds of the model and configuration values.                           *)
(***************************************************************************)
MaxRuns == 2                 \* process starts explored
MaxKeys == 2                 \* catalog keys of the largest subdivision
MaxFaults == 2               \* failed requests, exceptions and kills explored
MaxTable == 2                \* entries of a table in a shard handed to the merge
SUBJECT_SAVE_INTERVAL == 2   \* the configured save interval (environment, default 100)
CONCURRENCY == 2             \* the default of the configuration

(***************************************************************************)
(* The catalog served by the site: partitions, subdivisions, keys and the  *)
(* schedule type each key's page carries.                                  *)
(***************************************************************************)
termsToScrape == <<"t1", "t2">>
TermCodes == {termsToScrape[i] : i \in 1..Len(termsToScrape)}
AllSubjects == {"A", "B", "C", "D"}
SubjectOrder == <<"A", "B", "C", "D">>     \* readdirSync order of the shard files

SiteSubjects(t) == IF t = "t1" THEN <<"A", "B">> ELSE <<"C">>
\* D is a subject with more keys than the pool runs at once; no term of the
\* site lists it, the specification SpecPool crawls it on its own
NumKeys(s) == IF s = "A" THEN MaxKeys ELSE IF s = "D" THEN CONCURRENCY + 1 ELSE 1
SiteCourseList(s) == [i \in 1..NumKeys(s) |-> <<s, i>>]
AllKeys == UNION {{SiteCourseList(s)[i] : i \in 1..NumKeys(s)} : s \in AllSubjects}
ScheduleTypeOf(key) ==
    IF key[1] = "B" THEN "Lecture"
    ELSE IF key[2] % 2 = 1 THEN "Laboratory" ELSE "Lecture"

Range(seq) == {seq[i] : i \in 1..Len(seq)}
FirstIndexOf(seq, v) ==
    IF v \in Range(seq)
    THEN (CHOOSE i \in 1..Len(seq) : seq[i] = v /\ \A j \in 1..(i-1) : seq[j] # v) - 1
    ELSE -1
EmptyMap == [x \in {} |-> 0]
MapPut(m, k, v) == [x \in (DOMAIN m) \cup {k} |-> IF x = k THEN v ELSE m[x]]
MapDel(m, k) == [x \in (DOMAIN m) \ {k} |-> m[x]]
RemoveAt(seq, i) == [j \in 1..(Len(seq) - 1) |-> IF j < i THEN seq[j] ELSE seq[j + 1]]

(***************************************************************************)
(* DataWriter: interning tables (caches) and their lookup maps             *)
(* (cacheBuilder).  Indices are 0-based as in the code; table[i + 1] is    *)
(* the value of index i.                                                   *)
(***************************************************************************)
EmptyCaches == [scheduleTypes |-> <<>>, campuses |-> <<>>, gradeBases |-> <<>>]
NewDataWriter == [cacheBuilder |-> [scheduleTypes |-> EmptyMap, campuses |-> EmptyMap],
                  caches |-> EmptyCaches]

\* variant: the value is appended without looking it up
addToCacheAlwaysAppends(w, value) ==
    [w EXCEPT !.cacheBuilder.scheduleTypes = MapPut(@, value, Cardinality(DOMAIN @)),
              !.caches.scheduleTypes = Append(@, value)]
\* addToCache('scheduleTypes', value): the writer after the call
addToCache(w, value) ==
    IF value \in DOMAIN w.cacheBuilder.scheduleTypes
    THEN w
    ELSE [w EXCEPT !.cacheBuilder.scheduleTypes =
                       MapPut(@, value, Cardinality(DOMAIN @)),
                   !.caches.scheduleTypes = Append(@, value)]
\* variant: the lookup Map is not consulted
addToCacheIndexNoLookup(w, value) == Cardinality(DOMAIN w.cacheBuilder.scheduleTypes)
\* the index addToCache returns
addToCacheIndex(w, value) ==
    IF value \in DOMAIN w.cacheBuilder.scheduleTypes
    THEN w.cacheBuilder.scheduleTypes[value]
    ELSE Cardinality(DOMAIN w.cacheBuilder.scheduleTypes)

\* convertCourse: the section tuple of the key's course, reduced to its
\* categorical indices, and the writer after interning
convertCourse(w, key) ==
    [scheduleTypeIndex |-> addToCacheIndex(w, ScheduleTypeOf(key)),
     campusIndex |-> 0,
     gradeBasisIndex |-> -1]
convertCourseWriter(w, key) == addToCache(w, ScheduleTypeOf(key))

\* generateTermData(coursesMap).caches
generateTermDataCaches(w) == w.caches

(***************************************************************************)
(* ProgressManager: the Progress Record and its operations.  Every         *)
(* operation maps the in-memory record to the record after the call; the   *)
(* ones that call saveProgress are listed in Saves.                        *)
(***************************************************************************)
NewProgress ==
    [totalSubjects |-> 0, totalCourses |-> 0,
     subjects |-> <<>>, subjectCourseLists |-> EmptyMap,
     completedSubjects |-> <<>>, partialSubjects |-> EmptyMap,
     failedSubjects |-> <<>>,
     stats |-> [successfulCourses |-> 0, failedCourses |-> 0, rateLimitCount |-> 0]]
NoProgressFile == [exists |-> FALSE, parses |-> TRUE, data |-> NewProgress]
NoSubjectFile == [exists |-> FALSE, parses |-> TRUE, courseCount |-> 0, courses |-> EmptyMap,
                  caches |-> EmptyCaches]
NoTermFile == [exists |-> FALSE, courses |-> EmptyMap, caches |-> EmptyCaches]
NoIndex == [exists |-> FALSE, terms |-> <<>>]

\* A file whose content is not valid JSON (a write that the kill cut short) has
\* parses = FALSE; its other fields are what was being written.
\* variant: the content of the progress file is used without the try/catch
loadOrCreateProgressUnguarded(file) == IF file.exists THEN file.data ELSE NewProgress
\* loadOrCreateProgress: the parsed file, or a new record when the file is
\* absent or JSON.parse throws
loadOrCreateProgress(file) == IF file.exists /\ file.parses THEN file.data ELSE NewProgress

updateTotals(p, ns, nc) == [p EXCEPT !.totalSubjects = ns, !.totalCourses = nc]
cacheSubjects(p, subs) == [p EXCEPT !.subjects = subs]
cacheCourseLists(p, lists) == [p EXCEPT !.subjectCourseLists = lists]
incrementSuccess(p) == [p EXCEPT !.stats.successfulCourses = @ + 1]
\* variant: the failure is not counted
incrementFailureNotCounted(p) == p
incrementFailure(p) == [p EXCEPT !.stats.failedCourses = @ + 1]
\* variant: a rate limit is not counted
incrementRateLimitNotCounted(p) == p
incrementRateLimit(p) == [p EXCEPT !.stats.rateLimitCount = @ + 1]
markSubjectPartial(p, s, done, total, last) ==
    [p EXCEPT !.partialSubjects =
        MapPut(@, s, [completed |-> done, total |-> total, lastCourse |-> last])]
markSubjectCompleted(p, s) ==
    [p EXCEPT !.partialSubjects = MapDel(@, s),
              !.completedSubjects = IF s \in Range(@) THEN @ ELSE Append(@, s),
              !.failedSubjects = IF s \in Range(@)
                                 THEN RemoveAt(@, FirstIndexOf(@, s) + 1) ELSE @]
markSubjectFailed(p, s) ==
    [p EXCEPT !.failedSubjects = IF s \in Range(@) THEN @ ELSE Append(@, s)]
\* variant: no subject is taken for completed
isSubjectCompletedNever(p, s) == FALSE
isSubjectCompleted(p, s) == s \in Range(p.completedSubjects)
getCachedSubjects(p) == p.subjects
getCachedCourseLists(p) == p.subjectCourseLists
\* variant: the cached subject list is never used
HasCachedSubjectsNever(p) == FALSE
\* main, Step 1: cachedSubjects && cachedSubjects.length > 0
HasCachedSubjects(p) == Len(getCachedSubjects(p)) > 0
\* main, Step 2: cachedCourseLists && Object.keys(cachedCourseLists).length > 0
HasCachedCourseLists(p) == DOMAIN getCachedCourseLists(p) # {}

\* the Progress Store calls that end in this.saveProgress()
Saves == {"updateTotals", "cacheSubjects", "cacheCourseLists",
          "markSubjectPartial", "markSubjectCompleted", "markSubjectFailed"}
\* saveProgress: the progress file after the operation op returned
saveProgress(file, p, op) ==
    IF op \in Saves THEN [exists |-> TRUE, parses |-> TRUE, data |-> p] ELSE file

\* saveSubjectFile
saveSubjectFile(courses, caches) ==
    [exists |-> TRUE, parses |-> TRUE, courseCount |-> Cardinality(DOMAIN courses),
     courses |-> courses, caches |-> caches]
\* loadSubjectFile: the parsed file, or null (here the absent file) when the
\* file is absent or JSON.parse throws
loadSubjectFile(file) == IF file.exists /\ file.parses THEN file ELSE NoSubjectFile
\* variant: the shard is not read back
getScrapedCoursesNone(file) == EmptyMap
\* getScrapedCourses (loadSubjectFile?.courses ?? {})
getScrapedCourses(file) == loadSubjectFile(file).courses


(***************************************************************************)
(* mergeAllSubjects (the version that remaps indices).  MergeTable folds   *)
(* one shard table into the growing global table and yields the            *)
(* local-index -> global-index map; RemapIndex is indexMaps.get(i) ?? i.   *)
(***************************************************************************)
RECURSIVE MergeTable(_, _, _, _)
MergeTable(global, local, i, map) ==
    IF i > Len(local) THEN [table |-> global, map |-> map]
    ELSE IF local[i] \in Range(global)
         THEN MergeTable(global, local, i + 1,
                         MapPut(map, i - 1, FirstIndexOf(global, local[i])))
         ELSE MergeTable(Append(global, local[i]), local, i + 1,
                         MapPut(map, i - 1, Len(global)))

\* variant: records keep their shard-local indices, as mergeAllSubjects of
\* apps/crawler-v3/src/progress.ts (442-555) leaves them
RemapIndexKeepsLocal(map, i) == i
\* indexMaps.<category>.get(i) ?? i
RemapIndex(map, i) == IF i \in DOMAIN map THEN map[i] ELSE i

RemapCourse(c, maps) ==
    [scheduleTypeIndex |-> RemapIndex(maps.scheduleTypes, c.scheduleTypeIndex),
     campusIndex |-> RemapIndex(maps.campuses, c.campusIndex),
     gradeBasisIndex |-> IF c.gradeBasisIndex >= 0
                         THEN RemapIndex(maps.gradeBases, c.gradeBasisIndex)
                         ELSE c.gradeBasisIndex]

\* variant: a key already merged keeps the record of the earlier shard
MergeFileKeepsFirst(acc, file) ==
    LET st == MergeTable(acc.caches.scheduleTypes, file.caches.scheduleTypes, 1, EmptyMap)
        ca == MergeTable(acc.caches.campuses, file.caches.campuses, 1, EmptyMap)
        gb == MergeTable(acc.caches.gradeBases, file.caches.gradeBases, 1, EmptyMap)
        maps == [scheduleTypes |-> st.map, campuses |-> ca.map, gradeBases |-> gb.map]
    IN  [courses |-> [k \in (DOMAIN acc.courses) \cup (DOMAIN file.courses) |->
                        IF k \in DOMAIN acc.courses
                        THEN acc.courses[k]
                        ELSE RemapCourse(file.courses[k], maps)],
         caches |-> [scheduleTypes |-> st.table, campuses |-> ca.table,
                     gradeBases |-> gb.table]]
\* one iteration of the loop over the shard files
MergeFile(acc, file) ==
    LET st == MergeTable(acc.caches.scheduleTypes, file.caches.scheduleTypes, 1, EmptyMap)
        ca == MergeTable(acc.caches.campuses, file.caches.campuses, 1, EmptyMap)
        gb == MergeTable(acc.caches.gradeBases, file.caches.gradeBases, 1, EmptyMap)
        maps == [scheduleTypes |-> st.map, campuses |-> ca.map, gradeBases |-> gb.map]
    IN  [courses |-> [k \in (DOMAIN acc.courses) \cup (DOMAIN file.courses) |->
                        IF k \in DOMAIN file.courses
                        THEN RemapCourse(file.courses[k], maps)
                        ELSE acc.courses[k]],
         caches |-> [scheduleTypes |-> st.table, campuses |-> ca.table,
                     gradeBases |-> gb.table]]

RECURSIVE MergeFrom(_, _, _, _)
MergeFrom(acc, files, order, i) ==
    IF i > Len(order) THEN acc
    ELSE MergeFrom(IF files[order[i]].exists /\ files[order[i]].parses
                   THEN MergeFile(acc, files[order[i]]) ELSE acc,
                   files, order, i + 1)

mergeAllSubjects(files, order) ==
    MergeFrom([courses |-> EmptyMap, caches |-> EmptyCaches], files, order, 1)

(***************************************************************************)
(* State.                                                                  *)
(***************************************************************************)
VARIABLES
    \* files under OUTPUT_DIR
    indexJson, indexTemp, progressFile, subjectFiles, termFiles,
    \* the process: main's locals
    pc, exitCode, runs, termIdx, subjIdx, completedTerms, anyTermFailed,
    progress, subjects, subjectCourseMap, writer,
    \* scrapeSubjectCourses and the pool
    coursesToScrape, nextItem, sleeping, fetching, settled, coursesMap,
    lastSaveCount, abortRequested, result,
    \* history of the current run, for stating the properties
    indexAtStart, diskAtStart, discovered, promoted, fetchLog, attempts, fetchedAfterAbort, succeeded, lastOp,
    shardKeysAtStart,
    \* the environment's failures so far (bounded by MaxFaults)
    faults

disk == <<indexJson, indexTemp, progressFile, subjectFiles, termFiles>>
mainv == <<termIdx, subjIdx, completedTerms, anyTermFailed, progress, subjects,
           subjectCourseMap, writer>>
poolv == <<coursesToScrape, nextItem, sleeping, fetching, settled, coursesMap,
           lastSaveCount, abortRequested, result>>
\* what a run finds on disk when it starts: the published term files, the
\* terms that have a progress file, and the terms whose Progress Record holds
\* a subject list and course lists
DiskSummary(tf, pf) ==
    [termFiles |-> tf,
     progressFiles |-> {t \in DOMAIN pf : pf[t].exists},
     cached |-> {t \in DOMAIN pf : /\ pf[t].exists /\ pf[t].parses
                                     /\ Len(pf[t].data.subjects) > 0
                                     /\ DOMAIN pf[t].data.subjectCourseLists # {}}]

hist == <<indexAtStart, diskAtStart, discovered, promoted, fetchLog, attempts, fetchedAfterAbort, succeeded, lastOp,
          shardKeysAtStart>>
vars == <<disk, pc, exitCode, runs, mainv, poolv, hist, faults>>

\* the environment fails n more times
Fault(n) == faults + n <= MaxFaults /\ faults' = faults + n
NoFault == faults' = faults

\* scrapeCourse calls made for each key in this run
NoAttempts == [k \in AllKeys |-> 0]
NoResult == [key |-> <<"", 0>>, success |-> FALSE, errorType |-> "none"]
\* what a request ends in: a page, 403, 429 (the transient error the code
\* tells apart), or another error that is neither (a 404, a parse error)
Outcomes == {"ok", "403", "429", "error"}

CurTerm == termsToScrape[termIdx]
CurSubject == subjects[subjIdx]
CoursesIn(s) == IF s \in DOMAIN subjectCourseMap THEN subjectCourseMap[s] ELSE <<>>
Executing == sleeping \cup fetching \cup DOMAIN settled
SeqSum(f, S) == LET RECURSIVE Sum(_)
                    Sum(T) == IF T = {} THEN 0
                              ELSE LET x == CHOOSE x \in T : TRUE
                                   IN Len(f[x]) + Sum(T \ {x})
                IN Sum(S)
FilterSeq(seq, keep) ==
    LET RECURSIVE F(_)
        F(i) == IF i > Len(seq) THEN <<>>
                ELSE IF seq[i] \in keep THEN <<seq[i]>> \o F(i + 1) ELSE F(i + 1)
    IN F(1)

PoolInit ==
    /\ coursesToScrape = <<>> /\ nextItem = 1
    /\ sleeping = {} /\ fetching = {} /\ settled = EmptyMap
    /\ coursesMap = EmptyMap /\ lastSaveCount = 0
    /\ abortRequested = FALSE /\ result = NoResult
MainInit ==
    /\ termIdx = 1 /\ subjIdx = 1 /\ completedTerms = <<>> /\ anyTermFailed = FALSE
    /\ progress = NewProgress /\ subjects = <<>> /\ subjectCourseMap = EmptyMap
    /\ writer = NewDataWriter

Init ==
    /\ indexJson = [exists |-> TRUE, terms |-> <<"t0">>]
    /\ indexTemp = NoIndex
    /\ progressFile = [t \in TermCodes |-> NoProgressFile]
    /\ subjectFiles = [t \in TermCodes |-> [s \in AllSubjects |-> NoSubjectFile]]
    /\ termFiles = [t \in TermCodes |-> NoTermFile]
    /\ pc = "main_start" /\ exitCode = -1 /\ runs = 1
    /\ MainInit /\ PoolInit
    /\ indexAtStart = indexJson /\ promoted = FALSE
    /\ diskAtStart = DiskSummary(termFiles, progressFile)
    /\ discovered = {}
    /\ fetchLog = {} /\ attempts = NoAttempts /\ fetchedAfterAbort = FALSE /\ succeeded = {}
    /\ lastOp = "none"
    /\ shardKeysAtStart = [t \in TermCodes |-> [s \in AllSubjects |-> {}]]
    /\ faults = 0


(***************************************************************************)
(* main: staging, discovery, the subject loop.                             *)
(***************************************************************************)
\* `continue` and the catch block of the term loop: on to the next term
NextTerm ==
    /\ termIdx' = termIdx + 1
    /\ pc' = "term_begin"

\* variant: only the first term is staged
writeIndexTempFirstOnly(terms) == [exists |-> TRUE, terms |-> SubSeq(terms, 1, 1)]
\* writeIndexTemp: the provisional manifest written
writeIndexTemp(terms) == [exists |-> TRUE, terms |-> terms]

\* writeIndexTemp(terms) at the start of the run
Start ==
    /\ NoFault
    /\ pc = "main_start"
    /\ indexTemp' = writeIndexTemp(termsToScrape)
    /\ pc' = "term_begin"
    /\ UNCHANGED <<indexJson, progressFile, subjectFiles, termFiles, exitCode, runs,
                   mainv, poolv, hist>>

\* top of the term loop: new ProgressManager(...), or the loop is over
BeginTerm ==
    /\ NoFault
    /\ pc = "term_begin"
    /\ IF termIdx > Len(termsToScrape)
       THEN /\ pc' = "final"
            /\ UNCHANGED <<progress, lastOp>>
       ELSE /\ progress' = loadOrCreateProgress(progressFile[CurTerm])
            /\ lastOp' = "none"
            /\ pc' = "step1"
    /\ UNCHANGED <<disk, exitCode, runs, termIdx, subjIdx, completedTerms, anyTermFailed,
                   subjects, subjectCourseMap, writer, poolv, indexAtStart, diskAtStart, discovered, promoted,
                   fetchLog, attempts, fetchedAfterAbort, succeeded, shardKeysAtStart>>

\* Step 1: the subject list, from the Progress Record or from scrapeSubjects,
\* which returns the site's list, an empty list, or throws
DiscoverSubjects ==
    /\ pc = "step1"
    /\ IF HasCachedSubjects(progress)
       THEN /\ subjects' = getCachedSubjects(progress)
            /\ NoFault
            /\ pc' = "step2"
            /\ UNCHANGED <<progress, progressFile, lastOp, termIdx, anyTermFailed, discovered>>
       ELSE \E answer \in {"list", "empty", "throw"} :
            /\ discovered' = discovered \cup {<<CurTerm, "subjects">>}
            /\ IF answer = "throw"
              THEN /\ Fault(1)
                   /\ anyTermFailed' = TRUE
                   /\ NextTerm
                   /\ UNCHANGED <<progress, progressFile, lastOp, subjects>>
              ELSE /\ IF answer = "list" THEN NoFault ELSE Fault(1)
                   /\ subjects' = IF answer = "list" THEN SiteSubjects(CurTerm) ELSE <<>>
                   /\ progress' = cacheSubjects(progress, subjects')
                   /\ lastOp' = "cacheSubjects"
                   /\ progressFile' = [progressFile EXCEPT ![CurTerm] =
                                          saveProgress(@, progress', lastOp')]
                   /\ IF Len(subjects') = 0
                      THEN NextTerm
                      ELSE pc' = "step2" /\ UNCHANGED termIdx
                   /\ UNCHANGED anyTermFailed
    /\ UNCHANGED <<indexJson, indexTemp, subjectFiles, termFiles, exitCode, runs, subjIdx,
                   completedTerms, subjectCourseMap, writer, poolv, indexAtStart, diskAtStart,
                   promoted, fetchLog, attempts, fetchedAfterAbort, succeeded, shardKeysAtStart>>

\* Step 2: the key lists, from the Progress Record or from scrapeCourseList,
\* which returns [] for a subject whose request failed
DiscoverCourses ==
    /\ pc = "step2"
    /\ IF HasCachedCourseLists(progress)
       THEN /\ subjectCourseMap' = getCachedCourseLists(progress)
            /\ NoFault
            /\ UNCHANGED <<progress, progressFile, lastOp, discovered>>
       ELSE \E failed \in SUBSET Range(subjects) :
              /\ Fault(Cardinality(failed))
              /\ discovered' = discovered \cup {<<CurTerm, "courses">>}
              /\ subjectCourseMap' = [s \in Range(subjects) |->
                                         IF s \in failed THEN <<>> ELSE SiteCourseList(s)]
              /\ progress' = cacheCourseLists(progress, subjectCourseMap')
              /\ lastOp' = "cacheCourseLists"
              /\ progressFile' = [progressFile EXCEPT ![CurTerm] =
                                     saveProgress(@, progress', lastOp')]
    /\ pc' = "totals"
    /\ UNCHANGED <<indexJson, indexTemp, subjectFiles, termFiles, exitCode, runs, termIdx,
                   subjIdx, completedTerms, anyTermFailed, subjects, writer, poolv,
                   indexAtStart, diskAtStart, promoted, fetchLog, attempts, fetchedAfterAbort, succeeded,
                   shardKeysAtStart>>

\* updateTotals, then Step 3 starts with a new DataWriter
UpdateTotals ==
    /\ NoFault
    /\ pc = "totals"
    /\ LET total == SeqSum(subjectCourseMap, DOMAIN subjectCourseMap) IN
         /\ progress' = updateTotals(progress, Len(subjects), total)
         /\ lastOp' = "updateTotals"
         /\ progressFile' = [progressFile EXCEPT ![CurTerm] =
                                saveProgress(@, progress', lastOp')]
         /\ IF total = 0
            THEN NextTerm /\ UNCHANGED <<writer, subjIdx>>
            ELSE /\ writer' = NewDataWriter
                 /\ subjIdx' = 1
                 /\ pc' = "subj_loop"
                 /\ UNCHANGED termIdx
    /\ UNCHANGED <<indexJson, indexTemp, subjectFiles, termFiles, exitCode, runs,
                   completedTerms, anyTermFailed, subjects, subjectCourseMap, poolv,
                   indexAtStart, diskAtStart, discovered, promoted, fetchLog, attempts, fetchedAfterAbort, succeeded,
                   shardKeysAtStart>>

\* variant: the run starts from no records, whatever the shard holds
ExistingCoursesIgnored(file) == EmptyMap
\* the records scrapeSubjectCourses starts from (main, "resume support")
ExistingCourses(file) == getScrapedCourses(file)

\* top of the subject loop and the entry of scrapeSubjectCourses
NextSubject ==
    /\ NoFault
    /\ pc = "subj_loop"
    /\ IF subjIdx > Len(subjects)
       THEN /\ pc' = "merge"
            /\ UNCHANGED <<subjIdx, progress, progressFile, lastOp, poolv, succeeded>>
       ELSE LET s == CurSubject
                existing == ExistingCourses(subjectFiles[CurTerm][s])
                todo == FilterSeq(CoursesIn(s), Range(CoursesIn(s)) \ DOMAIN existing)
            IN  IF isSubjectCompleted(progress, s)
                THEN /\ subjIdx' = subjIdx + 1
                     /\ pc' = "subj_loop"
                     /\ UNCHANGED <<progress, progressFile, lastOp, poolv, succeeded>>
                ELSE IF Len(CoursesIn(s)) = 0
                THEN /\ progress' = markSubjectCompleted(progress, s)
                     /\ lastOp' = "markSubjectCompleted"
                     /\ progressFile' = [progressFile EXCEPT ![CurTerm] =
                                            saveProgress(@, progress', lastOp')]
                     /\ subjIdx' = subjIdx + 1
                     /\ pc' = "subj_loop"
                     /\ UNCHANGED <<poolv, succeeded>>
                ELSE IF Len(todo) = 0
                THEN /\ subjIdx' = subjIdx + 1
                     /\ pc' = "subj_loop"
                     /\ UNCHANGED <<progress, progressFile, lastOp, poolv, succeeded>>
                ELSE /\ coursesToScrape' = todo
                     /\ coursesMap' = existing
                     /\ lastSaveCount' = Cardinality(DOMAIN existing)
                     /\ abortRequested' = FALSE
                     /\ nextItem' = 1
                     /\ sleeping' = {} /\ fetching' = {} /\ settled' = EmptyMap
                     /\ result' = NoResult
                     /\ succeeded' = {}
                     /\ pc' = "pool_pull"
                     /\ UNCHANGED <<subjIdx, progress, progressFile, lastOp>>
    /\ UNCHANGED <<indexJson, indexTemp, subjectFiles, termFiles, exitCode, runs, termIdx,
                   completedTerms, anyTermFailed, subjects, subjectCourseMap, writer,
                   indexAtStart, diskAtStart, discovered, promoted, fetchLog, attempts, fetchedAfterAbort, shardKeysAtStart>>


(***************************************************************************)
(* scrapeSubjectCourses: the pool (tiny-async-pool's lazy generator), the  *)
(* worker task scrapeWithDelay, and the for-await loop.                    *)
(***************************************************************************)
\* variant: every remaining key is dispatched at once
MinUnbounded(a, b) == a
Min(a, b) == IF a < b THEN a ELSE b
TotalForSubject == Len(CoursesIn(CurSubject))
\* variant: the shard is written only when the save interval is due
SaveShardWhenDue ==
    IF Cardinality(DOMAIN coursesMap) - lastSaveCount >= SUBJECT_SAVE_INTERVAL
    THEN [subjectFiles EXCEPT ![CurTerm][CurSubject] =
             saveSubjectFile(coursesMap, generateTermDataCaches(writer))]
    ELSE subjectFiles
SaveShard == [subjectFiles EXCEPT ![CurTerm][CurSubject] =
                 saveSubjectFile(coursesMap, generateTermDataCaches(writer))]

\* variant: the generator ends as soon as every item has been dispatched
PoolDrainedWhenDispatched(inFlight, next, len) == next > len
\* the for-await over asyncPool ends when no task is left executing
PoolDrained(inFlight, next, len) == inFlight = {}

\* the coordinator pulls the next result: the generator dispatches tasks until
\* CONCURRENCY of them are executing or the list is exhausted.  A task that
\* sees abortRequested returns an "aborted" result at once; the others start
\* their pacing delay.  A result that is already there is consumed at once.
PoolPull ==
    /\ NoFault
    /\ pc = "pool_pull"
    /\ LET remaining == Len(coursesToScrape) - nextItem + 1
           d == Min(remaining, CONCURRENCY - Cardinality(Executing))
           new == {coursesToScrape[i] : i \in nextItem..(nextItem + d - 1)}
           settledNow == IF abortRequested
                         THEN [k \in (DOMAIN settled) \cup new |->
                                  IF k \in new THEN "aborted" ELSE settled[k]]
                         ELSE settled
           sleepingNow == IF abortRequested THEN sleeping ELSE sleeping \cup new
       IN  /\ nextItem' = nextItem + d
           /\ sleeping' = sleepingNow
           /\ IF DOMAIN settledNow # {}
              THEN \E k \in DOMAIN settledNow :
                     /\ result' = [key |-> k, success |-> FALSE, errorType |-> settledNow[k]]
                     /\ settled' = MapDel(settledNow, k)
                     /\ pc' = "process_result"
              ELSE /\ settled' = settledNow
                   /\ result' = result
                   /\ pc' = IF PoolDrained(sleepingNow \cup fetching, nextItem + d,
                                           Len(coursesToScrape))
                            THEN "pool_done"
                            ELSE "await_race"
    /\ UNCHANGED <<disk, exitCode, runs, mainv, coursesToScrape, fetching, coursesMap,
                   lastSaveCount, abortRequested, hist>>

\* a task's pacing delay ends: totalRequests++ and scrapeCourse is called
\* (no second look at abortRequested); with the signal already aborted the
\* request is rejected at once as canceled
TimerFire(k) ==
    /\ NoFault
    /\ pc = "await_race"
    /\ k \in sleeping
    /\ sleeping' = sleeping \ {k}
    /\ fetchLog' = fetchLog \cup {k}
    /\ attempts' = [attempts EXCEPT ![k] = @ + 1]
    /\ fetchedAfterAbort' = (fetchedAfterAbort \/ abortRequested)
    /\ IF abortRequested
       THEN /\ result' = [key |-> k, success |-> FALSE, errorType |-> "canceled"]
            /\ pc' = "process_result"
            /\ UNCHANGED fetching
       ELSE /\ fetching' = fetching \cup {k}
            /\ UNCHANGED <<result, pc>>
    /\ UNCHANGED <<disk, exitCode, runs, mainv, coursesToScrape, nextItem, settled,
                   coursesMap, lastSaveCount, abortRequested, indexAtStart, diskAtStart, discovered, promoted,
                   succeeded, lastOp, shardKeysAtStart>>

\* the server answers task k's request; the task settles and, the coordinator
\* being suspended in the race, its result is the one consumed.  A 403 raises
\* abortRequested and aborts the controller, which cancels the other requests
\* in flight.
\* variant: every error other than a rate limit is taken for a block
RaisesAbortOnAnyError(o) == o \in {"403", "error"}
\* scrapeWithDelay's catch block: `error.response?.status === 403` sets
\* abortRequested and aborts the controller
RaisesAbort(o) == o = "403"

\* variant: the task itself counts its outcome in the Progress Record
ResponseCountsInTask(k, o) ==
    /\ IF o = "ok" THEN NoFault ELSE Fault(1)
    /\ pc = "await_race"
    /\ k \in fetching
    /\ result' = [key |-> k, success |-> (o = "ok"), errorType |-> o]
    /\ succeeded' = IF o = "ok" THEN succeeded \cup {k} ELSE succeeded
    /\ IF RaisesAbort(o)
       THEN /\ abortRequested' = TRUE
            /\ fetching' = {}
            /\ settled' = [j \in (DOMAIN settled) \cup (fetching \ {k}) |->
                              IF j \in DOMAIN settled THEN settled[j] ELSE "canceled"]
       ELSE /\ fetching' = fetching \ {k}
            /\ UNCHANGED <<abortRequested, settled>>
    /\ pc' = "process_result"
    /\ progress' = IF o = "ok" THEN incrementSuccess(progress) ELSE incrementFailure(progress)
    /\ UNCHANGED <<disk, exitCode, runs, termIdx, subjIdx, completedTerms, anyTermFailed,
                   subjects, subjectCourseMap, writer, coursesToScrape, nextItem, sleeping,
                   coursesMap, lastSaveCount, indexAtStart, diskAtStart, discovered, promoted, fetchLog, attempts,
                   fetchedAfterAbort, lastOp, shardKeysAtStart>>
Response(k, o) ==
    /\ IF o = "ok" THEN NoFault ELSE Fault(1)
    /\ pc = "await_race"
    /\ k \in fetching
    /\ result' = [key |-> k, success |-> (o = "ok"), errorType |-> o]
    /\ succeeded' = IF o = "ok" THEN succeeded \cup {k} ELSE succeeded
    /\ IF RaisesAbort(o)
       THEN /\ abortRequested' = TRUE
            /\ fetching' = {}
            /\ settled' = [j \in (DOMAIN settled) \cup (fetching \ {k}) |->
                              IF j \in DOMAIN settled THEN settled[j] ELSE "canceled"]
       ELSE /\ fetching' = fetching \ {k}
            /\ UNCHANGED <<abortRequested, settled>>
    /\ pc' = "process_result"
    /\ UNCHANGED <<disk, exitCode, runs, mainv, coursesToScrape, nextItem, sleeping,
                   coursesMap, lastSaveCount, indexAtStart, diskAtStart, discovered, promoted, fetchLog, attempts,
                   fetchedAfterAbort, lastOp, shardKeysAtStart>>

\* variant: the loop goes on pulling results after an abort
AfterResultNoBreak(abort) == "pool_pull"
\* end of the loop body: `if (abortRequested) break`
AfterResult(abort) == IF abort THEN "abort_save" ELSE "pool_pull"

\* variant: the save waits until more than an interval has accumulated
SaveDueLate(totalScraped, last) == totalScraped - last > SUBJECT_SAVE_INTERVAL
\* `totalScraped - lastSaveCount >= SUBJECT_SAVE_INTERVAL`
SaveDue(totalScraped, last) == totalScraped - last >= SUBJECT_SAVE_INTERVAL

\* the loop body up to the save-interval test
ProcessResult ==
    /\ NoFault
    /\ pc = "process_result"
    /\ IF result.success
       THEN /\ coursesMap' = MapPut(coursesMap, result.key, convertCourse(writer, result.key))
            /\ writer' = convertCourseWriter(writer, result.key)
            /\ progress' = incrementSuccess(progress)
            /\ lastOp' = "incrementSuccess"
       ELSE /\ progress' = IF result.errorType = "429"
                           THEN incrementRateLimit(incrementFailure(progress))
                           ELSE incrementFailure(progress)
            /\ lastOp' = IF result.errorType = "429" THEN "incrementRateLimit"
                         ELSE "incrementFailure"
            /\ UNCHANGED <<coursesMap, writer>>
    /\ progressFile' = [progressFile EXCEPT ![CurTerm] = saveProgress(@, progress', lastOp')]
    /\ pc' = IF SaveDue(Cardinality(DOMAIN coursesMap'), lastSaveCount)
             THEN "interval_save"
             ELSE AfterResult(abortRequested)
    /\ UNCHANGED <<indexJson, indexTemp, subjectFiles, termFiles, exitCode, runs, termIdx,
                   subjIdx, completedTerms, anyTermFailed, subjects, subjectCourseMap,
                   coursesToScrape, nextItem, sleeping, fetching, settled, lastSaveCount,
                   abortRequested, result, indexAtStart, diskAtStart, discovered, promoted, fetchLog, attempts,
                   fetchedAfterAbort, succeeded, shardKeysAtStart>>

\* write-through save: saveSubjectFile ...
IntervalSave ==
    /\ NoFault
    /\ pc = "interval_save"
    /\ subjectFiles' = SaveShard
    /\ pc' = "interval_mark"
    /\ UNCHANGED <<indexJson, indexTemp, progressFile, termFiles, exitCode, runs, mainv,
                   poolv, hist>>

\* ... then markSubjectPartial and lastSaveCount
IntervalMark ==
    /\ NoFault
    /\ pc = "interval_mark"
    /\ progress' = markSubjectPartial(progress, CurSubject, Cardinality(DOMAIN coursesMap),
                                      TotalForSubject, result.key)
    /\ lastOp' = "markSubjectPartial"
    /\ progressFile' = [progressFile EXCEPT ![CurTerm] = saveProgress(@, progress', lastOp')]
    /\ lastSaveCount' = Cardinality(DOMAIN coursesMap)
    /\ pc' = AfterResult(abortRequested)
    /\ UNCHANGED <<indexJson, indexTemp, subjectFiles, termFiles, exitCode, runs, termIdx,
                   subjIdx, completedTerms, anyTermFailed, subjects, subjectCourseMap,
                   writer, coursesToScrape, nextItem, sleeping, fetching, settled,
                   coursesMap, abortRequested, result, indexAtStart, diskAtStart, discovered, promoted, fetchLog, attempts,
                   fetchedAfterAbort, succeeded, shardKeysAtStart>>

\* variant: the abort handler leaves the shard as the last save wrote it
AbortShardNotSaved == subjectFiles
\* the shard as the abort handler leaves it
AbortShard == SaveShard

\* "Handle abort - save progress before exit": saveSubjectFile ...
AbortSave ==
    /\ NoFault
    /\ pc = "abort_save"
    /\ subjectFiles' = AbortShard
    /\ pc' = "abort_mark"
    /\ UNCHANGED <<indexJson, indexTemp, progressFile, termFiles, exitCode, runs, mainv,
                   poolv, hist>>

\* ... markSubjectPartial(..., 'ABORTED') and saveProgress
AbortMark ==
    /\ NoFault
    /\ pc = "abort_mark"
    /\ progress' = markSubjectPartial(progress, CurSubject, Cardinality(DOMAIN coursesMap),
                                      TotalForSubject, <<"ABORTED", 0>>)
    /\ lastOp' = "markSubjectPartial"
    /\ progressFile' = [progressFile EXCEPT ![CurTerm] = saveProgress(@, progress', lastOp')]
    /\ pc' = "abort_exit"
    /\ UNCHANGED <<indexJson, indexTemp, subjectFiles, termFiles, exitCode, runs, termIdx,
                   subjIdx, completedTerms, anyTermFailed, subjects, subjectCourseMap,
                   writer, poolv, indexAtStart, diskAtStart, discovered, promoted, fetchLog, attempts, fetchedAfterAbort,
                   succeeded, shardKeysAtStart>>

\* the exit code main ends with after an aborted subject
AbortExitCode == 1

\* variant: the aborting run publishes what it has so far before it exits
AbortExitPublishesPartial ==
    /\ NoFault
    /\ pc = "abort_exit"
    /\ anyTermFailed' = TRUE
    /\ exitCode' = AbortExitCode
    /\ pc' = "exited"
    /\ termFiles' = [termFiles EXCEPT ![CurTerm] =
          LET m == mergeAllSubjects(subjectFiles[CurTerm], SubjectOrder)
          IN [exists |-> TRUE, courses |-> m.courses, caches |-> m.caches]]
    /\ UNCHANGED <<indexJson, indexTemp, progressFile, subjectFiles, runs, termIdx, subjIdx,
                   completedTerms, progress, subjects, subjectCourseMap, writer, poolv, hist>>
\* return { aborted: true }; main: termAborted, anyTermFailed, process.exit(1)
AbortExit ==
    /\ NoFault
    /\ pc = "abort_exit"
    /\ anyTermFailed' = TRUE
    /\ exitCode' = AbortExitCode
    /\ pc' = "exited"
    /\ UNCHANGED <<disk, runs, termIdx, subjIdx, completedTerms, progress, subjects,
                   subjectCourseMap, writer, poolv, hist>>

\* "Subject complete - final save": saveSubjectFile ...
FinalSave ==
    /\ NoFault
    /\ pc = "pool_done"
    /\ subjectFiles' = SaveShard
    /\ pc' = "complete_mark"
    /\ UNCHANGED <<indexJson, indexTemp, progressFile, termFiles, exitCode, runs, mainv,
                   poolv, hist>>

\* ... markSubjectCompleted, and back to the subject loop
CompleteMark ==
    /\ NoFault
    /\ pc = "complete_mark"
    /\ progress' = markSubjectCompleted(progress, CurSubject)
    /\ lastOp' = "markSubjectCompleted"
    /\ progressFile' = [progressFile EXCEPT ![CurTerm] = saveProgress(@, progress', lastOp')]
    /\ subjIdx' = subjIdx + 1
    /\ pc' = "subj_loop"
    /\ UNCHANGED <<indexJson, indexTemp, subjectFiles, termFiles, exitCode, runs, termIdx,
                   completedTerms, anyTermFailed, subjects, subjectCourseMap, writer,
                   poolv, indexAtStart, diskAtStart, discovered, promoted, fetchLog, attempts, fetchedAfterAbort, succeeded,
                   shardKeysAtStart>>


(***************************************************************************)
(* main: merge, publish, cleanup, manifest promotion, exit.                *)
(***************************************************************************)
\* Step 4: mergeAllSubjects and writeTermData; an exception in either goes
\* to the catch block of the term loop
MergeAndWrite ==
    /\ pc = "merge"
    /\ \E ok \in BOOLEAN :
         IF ok
         THEN /\ NoFault
              /\ termFiles' = [termFiles EXCEPT ![CurTerm] =
                    LET m == mergeAllSubjects(subjectFiles[CurTerm], SubjectOrder)
                    IN [exists |-> TRUE, courses |-> m.courses, caches |-> m.caches]]
              /\ pc' = "cleanup"
              /\ UNCHANGED <<termIdx, anyTermFailed>>
         ELSE /\ Fault(1)
              /\ anyTermFailed' = TRUE
              /\ NextTerm
              /\ UNCHANGED termFiles
    /\ UNCHANGED <<indexJson, indexTemp, progressFile, subjectFiles, exitCode, runs,
                   subjIdx, completedTerms, progress, subjects, subjectCourseMap, writer,
                   poolv, hist>>

\* cleanup: the subjects directory is removed ...
CleanupShards ==
    /\ NoFault
    /\ pc = "cleanup"
    /\ subjectFiles' = [subjectFiles EXCEPT ![CurTerm] = [s \in AllSubjects |-> NoSubjectFile]]
    /\ pc' = "cleanup_progress"
    /\ UNCHANGED <<indexJson, indexTemp, progressFile, termFiles, exitCode, runs, mainv,
                   poolv, hist>>

\* ... then progress.json; completedTerms.push(termCode)
CleanupProgress ==
    /\ NoFault
    /\ pc = "cleanup_progress"
    /\ progressFile' = [progressFile EXCEPT ![CurTerm] = NoProgressFile]
    /\ lastOp' = "none"
    /\ completedTerms' = Append(completedTerms, CurTerm)
    /\ NextTerm
    /\ UNCHANGED <<indexJson, indexTemp, subjectFiles, termFiles, exitCode, runs, subjIdx,
                   anyTermFailed, progress, subjects, subjectCourseMap, writer, poolv,
                   indexAtStart, diskAtStart, discovered, promoted, fetchLog, attempts, fetchedAfterAbort, succeeded,
                   shardKeysAtStart>>

\* variant: promotion as soon as some term completed
PromoteGuardAnyDone(done, failed) == Len(done) > 0
\* the test guarding promoteIndexTemp
PromoteGuard(done, failed) == Len(done) = Len(termsToScrape) /\ ~failed

\* the exit code of a main() that returns
ReturnExitCode(done, failed) == 0

\* "Final index.json handling": promoteIndexTemp renames indextemp.json to
\* index.json (the rename may fail); main returns
Finish ==
    /\ pc = "final"
    /\ IF PromoteGuard(completedTerms, anyTermFailed)
       THEN \E renameOk \in BOOLEAN :
              IF indexTemp.exists /\ renameOk
              THEN /\ NoFault
                   /\ indexJson' = indexTemp
                   /\ indexTemp' = NoIndex
                   /\ promoted' = TRUE
              ELSE Fault(1) /\ UNCHANGED <<indexJson, indexTemp, promoted>>
       ELSE NoFault /\ UNCHANGED <<indexJson, indexTemp, promoted>>
    /\ exitCode' = ReturnExitCode(completedTerms, anyTermFailed)
    /\ pc' = "exited"
    /\ UNCHANGED <<progressFile, subjectFiles, termFiles, runs, mainv, poolv,
                   indexAtStart, diskAtStart, discovered, fetchLog, attempts, fetchedAfterAbort, succeeded, lastOp,
                   shardKeysAtStart>>

(***************************************************************************)
(* The process is killed, and the process is started again.                *)
(***************************************************************************)
ResetVolatile ==
    /\ termIdx' = 1 /\ subjIdx' = 1 /\ completedTerms' = <<>> /\ anyTermFailed' = FALSE
    /\ progress' = NewProgress /\ subjects' = <<>> /\ subjectCourseMap' = EmptyMap
    /\ writer' = NewDataWriter
    /\ coursesToScrape' = <<>> /\ nextItem' = 1
    /\ sleeping' = {} /\ fetching' = {} /\ settled' = EmptyMap
    /\ coursesMap' = EmptyMap /\ lastSaveCount' = 0
    /\ abortRequested' = FALSE /\ result' = NoResult
    /\ fetchLog' = {} /\ attempts' = NoAttempts /\ fetchedAfterAbort' = FALSE /\ succeeded' = {}
    /\ lastOp' = "none"
    /\ discovered' = {}

Crash ==
    /\ Fault(1)
    /\ pc # "exited"
    /\ pc' = "exited"
    /\ exitCode' = 137
    /\ ResetVolatile
    /\ UNCHANGED <<disk, runs, indexAtStart, diskAtStart, promoted, shardKeysAtStart>>

Restart ==
    /\ NoFault
    /\ pc = "exited"
    /\ runs < MaxRuns
    /\ runs' = runs + 1
    /\ pc' = "main_start"
    /\ exitCode' = -1
    /\ ResetVolatile
    /\ indexAtStart' = indexJson
    /\ diskAtStart' = DiskSummary(termFiles, progressFile)
    /\ promoted' = FALSE
    /\ shardKeysAtStart' = [t \in TermCodes |-> [s \in AllSubjects |->
                               DOMAIN getScrapedCourses(subjectFiles[t][s])]]
    /\ UNCHANGED disk

Next ==
    \/ Start
    \/ BeginTerm
    \/ DiscoverSubjects
    \/ DiscoverCourses
    \/ UpdateTotals
    \/ NextSubject
    \/ PoolPull
    \/ \E k \in AllKeys : TimerFire(k)
    \/ \E k \in AllKeys, o \in Outcomes : Response(k, o)
    \/ ProcessResult
    \/ IntervalSave
    \/ IntervalMark
    \/ AbortSave
    \/ AbortMark
    \/ AbortExit
    \/ FinalSave
    \/ CompleteMark
    \/ MergeAndWrite
    \/ CleanupShards
    \/ CleanupProgress
    \/ Finish
    \/ Crash
    \/ Restart

Spec == Init /\ [][Next]_vars


(***************************************************************************)
(* Properties of the crawl (specification Spec).                           *)
(***************************************************************************)
TermOf(s) == IF s \in Range(SiteSubjects("t1")) THEN "t1" ELSE "t2"
InTerm == pc \notin {"main_start", "term_begin", "final", "exited"}

\* C1  Idempotent resume: every key for which the run has called
\* scrapeCourse belongs to its subdivision's key list N and is not in S,
\* the key set the subdivision's shard held when the run started.
C1_IdempotentResume ==
    \A k \in fetchLog :
        /\ k \in Range(SiteCourseList(k[1]))
        /\ k \notin shardKeysAtStart[TermOf(k[1])][k[1]]
\* a resumed run that found a non-empty shard S and fetched a key of N \ S
C1_Witness ==
    /\ runs > 1
    /\ \E k \in fetchLog : shardKeysAtStart[TermOf(k[1])][k[1]] # {}

\* C2  Shard self-consistency, for the schedule-type category that
\* convertCourse interns: in every shard on disk, every record's
\* scheduleTypeIndex is in range of the shard's own scheduleTypes table and
\* denotes the schedule type the record was encoded from.
C2_ShardSelfConsistent ==
    \A t \in TermCodes, s \in AllSubjects :
        LET f == subjectFiles[t][s] IN
        f.exists =>
            \A k \in DOMAIN f.courses :
                LET i == f.courses[k].scheduleTypeIndex IN
                i >= 0 => /\ i < Len(f.caches.scheduleTypes)
                          /\ f.caches.scheduleTypes[i + 1] = ScheduleTypeOf(k)

\* C4  Abort preserves prior success: once the abort handler has run, and
\* when the process has ended after an abort, every record fetched
\* successfully in the subdivision is in its shard on disk, the
\* subdivision's partial marker is in the progress file, and the exit code
\* is not zero.
C4_AbortPreservesSuccess ==
    (abortRequested /\ pc \in {"abort_exit", "exited"}) =>
        /\ succeeded \subseteq DOMAIN subjectFiles[CurTerm][CurSubject].courses
        /\ progressFile[CurTerm].exists
        /\ CurSubject \in DOMAIN progressFile[CurTerm].data.partialSubjects
        /\ pc = "exited" => exitCode # 0
\* the process ended after an abort with one record fetched since the last
\* interval save
C4_Witness ==
    /\ abortRequested /\ pc = "exited" /\ exitCode = 1
    /\ Cardinality(succeeded) = 1
    /\ lastSaveCount = 0

\* C5  No fetch after abort: no task has called scrapeCourse at a moment
\* when abortRequested was already true.
C5_NoFetchAfterAbort == ~fetchedAfterAbort
\* the abort was raised while another task was in its pacing delay, and the
\* process ended without that task fetching
C5_Witness ==
    /\ abortRequested /\ pc = "exited"
    /\ sleeping # {}
    /\ ~fetchedAfterAbort

\* C6  Manifest promotion guard: index.json differs from what it was at the
\* start of the run only if promoteIndexTemp renamed the provisional
\* manifest, and that happens only when every term of the run completed and
\* none failed.
C6_PromotionGuard ==
    /\ indexJson # indexAtStart => promoted
    /\ promoted => /\ completedTerms = termsToScrape
                   /\ ~anyTermFailed
\* a run that completed one term and failed another has ended, and
\* index.json is what it was
C6_Witness ==
    /\ pc = "exited" /\ exitCode = 0
    /\ Len(completedTerms) = 1 /\ anyTermFailed
    /\ indexJson = indexAtStart /\ indexTemp.exists

\* C7  Manifest content after promotion: after a successful promotion
\* index.json lists the terms writeIndexTemp staged at the start of the run,
\* in order, and this is the list of terms the run completed.
C7_ManifestContent ==
    promoted => /\ indexJson = [exists |-> TRUE, terms |-> termsToScrape]
                /\ indexJson.terms = completedTerms
                /\ ~indexTemp.exists
\* a run has promoted the manifest
C7_Witness == promoted /\ pc = "exited" /\ indexJson # indexAtStart

\* C8  Exit code: a process that ended by itself ended with code zero if
\* and only if all terms completed and the manifest was promoted.
C8_ExitCode ==
    (pc = "exited" /\ exitCode \in {0, 1}) =>
        ((exitCode = 0) <=> (completedTerms = termsToScrape /\ ~anyTermFailed /\ promoted))

\* C9  Meaning of completed: right after markSubjectCompleted, every
\* subdivision in completedSubjects has every key of its key list in its
\* shard.
C9_CompletedMeansAllRecorded ==
    (pc = "subj_loop" /\ lastOp = "markSubjectCompleted") =>
        \A s \in Range(progress.completedSubjects) :
            \A k \in Range(CoursesIn(s)) :
                /\ subjectFiles[CurTerm][s].exists
                /\ k \in DOMAIN subjectFiles[CurTerm][s].courses

\* C10  Write-through: after every mutating call on the Progress Store the
\* progress file holds the in-memory record.
C10_WriteThrough ==
    (InTerm /\ lastOp # "none") =>
        progressFile[CurTerm] = [exists |-> TRUE, parses |-> TRUE, data |-> progress]


(***************************************************************************)
(* mergeAllSubjects on its own (specification SpecMerge): the subjects     *)
(* directory of the first term holds shards drawn from a bounded set, and  *)
(* the merge is applied to them.  A shard's tables hold distinct values,   *)
(* as addToCache builds them; its record may carry an index beyond its     *)
(* table, as a shard saved by a resumed run can.                           *)
(***************************************************************************)
ScheduleTypes == {"Lecture", "Laboratory", "Discussion"}
Campuses == {"Urbana-Champaign"}
Categories == {"scheduleTypes", "campuses", "gradeBases"}
IndexIn(c, course) ==
    CASE c = "scheduleTypes" -> course.scheduleTypeIndex
      [] c = "campuses" -> course.campusIndex
      [] c = "gradeBases" -> course.gradeBasisIndex

TablesOver(V, n) ==
    UNION {{t \in [1..m -> V] : \A i, j \in 1..m : t[i] = t[j] => i = j} : m \in 0..n}

ShardsOf(s) ==
    {[exists |-> TRUE, parses |-> TRUE, courseCount |-> 1,
      courses |-> (<<s, 1>> :> [scheduleTypeIndex |-> i, campusIndex |-> 0,
                                gradeBasisIndex |-> -1]),
      caches |-> [scheduleTypes |-> st, campuses |-> ca, gradeBases |-> <<>>]] :
        i \in 0..(MaxTable - 1), st \in TablesOver(ScheduleTypes, MaxTable),
        ca \in TablesOver(Campuses, 1)}

InitMerge ==
    /\ indexJson = [exists |-> TRUE, terms |-> <<"t0">>]
    /\ indexTemp = NoIndex
    /\ progressFile = [t \in TermCodes |-> NoProgressFile]
    /\ \E a \in ShardsOf("A"), b \in ShardsOf("B") :
         subjectFiles = [t \in TermCodes |-> [s \in AllSubjects |->
                            IF t = "t1" /\ s = "A" THEN a
                            ELSE IF t = "t1" /\ s = "B" THEN b
                            ELSE NoSubjectFile]]
    /\ termFiles = [t \in TermCodes |-> NoTermFile]
    /\ pc = "merge" /\ exitCode = -1 /\ runs = 1
    /\ MainInit /\ PoolInit
    /\ indexAtStart = indexJson /\ promoted = FALSE
    /\ diskAtStart = DiskSummary(termFiles, progressFile)
    /\ discovered = {}
    /\ fetchLog = {} /\ attempts = NoAttempts /\ fetchedAfterAbort = FALSE /\ succeeded = {}
    /\ lastOp = "none"
    /\ shardKeysAtStart = [t \in TermCodes |-> [s \in AllSubjects |-> {}]]
    /\ faults = 0

\* mergeAllSubjects() and writeTermData of its result
MergeShards ==
    /\ pc = "merge"
    /\ termFiles' = [termFiles EXCEPT ![CurTerm] =
          LET m == mergeAllSubjects(subjectFiles[CurTerm], SubjectOrder)
          IN [exists |-> TRUE, courses |-> m.courses, caches |-> m.caches]]
    /\ pc' = "merged"
    /\ UNCHANGED <<indexJson, indexTemp, progressFile, subjectFiles, exitCode, runs,
                   mainv, poolv, hist, faults>>

NextMerge == MergeShards

SpecMerge == InitMerge /\ [][NextMerge]_vars

Shards == {s \in AllSubjects : subjectFiles[CurTerm][s].exists}
\* the record of key k of shard s carries, in category c, an index that has an
\* entry in the shard's table
Denotes(s, k, c) ==
    LET f == subjectFiles[CurTerm][s] IN
    /\ IndexIn(c, f.courses[k]) >= 0
    /\ IndexIn(c, f.courses[k]) < Len(f.caches[c])
ShardValue(s, k, c) ==
    LET f == subjectFiles[CurTerm][s] IN f.caches[c][IndexIn(c, f.courses[k]) + 1]

InitProgress ==
    /\ indexJson = [exists |-> TRUE, terms |-> <<"t0">>]
    /\ indexTemp = NoIndex
    /\ progressFile = [t \in TermCodes |-> NoProgressFile]
    /\ subjectFiles = [t \in TermCodes |-> [s \in AllSubjects |-> NoSubjectFile]]
    /\ termFiles = [t \in TermCodes |-> NoTermFile]
    /\ pc = "store" /\ exitCode = -1 /\ runs = 1
    /\ MainInit /\ PoolInit
    /\ indexAtStart = indexJson /\ promoted = FALSE
    /\ diskAtStart = DiskSummary(termFiles, progressFile)
    /\ discovered = {}
    /\ fetchLog = {} /\ attempts = NoAttempts /\ fetchedAfterAbort = FALSE /\ succeeded = {}
    /\ lastOp = "none"
    /\ shardKeysAtStart = [t \in TermCodes |-> [s \in AllSubjects |-> {}]]
    /\ faults = 0

\* a call of one of the markers: the record after it, written through
StoreCall(op, p) ==
    /\ pc = "store"
    /\ progress' = p
    /\ lastOp' = op
    /\ progressFile' = [progressFile EXCEPT ![CurTerm] = saveProgress(@, p, op)]
    /\ UNCHANGED <<indexJson, indexTemp, subjectFiles, termFiles, pc, exitCode, runs,
                   termIdx, subjIdx, completedTerms, anyTermFailed, subjects,
                   subjectCourseMap, writer, poolv, indexAtStart, diskAtStart, discovered, promoted, fetchLog, attempts,
                   fetchedAfterAbort, succeeded, shardKeysAtStart, faults>>

MarkPartial(s) ==
    StoreCall("markSubjectPartial",
              markSubjectPartial(progress, s, 1, NumKeys(s), SiteCourseList(s)[1]))
MarkCompleted(s) == StoreCall("markSubjectCompleted", markSubjectCompleted(progress, s))
MarkFailed(s) == StoreCall("markSubjectFailed", markSubjectFailed(progress, s))

NextProgress ==
    \/ \E s \in AllSubjects : MarkPartial(s)
    \/ \E s \in AllSubjects : MarkCompleted(s)
    \/ \E s \in AllSubjects : MarkFailed(s)

SpecProgress == InitProgress /\ [][NextProgress]_vars

\* C11  Progress Record exclusivity: after any sequence of
\* markSubjectPartial, markSubjectCompleted and markSubjectFailed calls, no
\* subject of completedSubjects is a key of partialSubjects or a member of
\* failedSubjects.
C11_Exclusive ==
    \A s \in Range(progress.completedSubjects) :
        /\ s \notin DOMAIN progress.partialSubjects
        /\ s \notin Range(progress.failedSubjects)


(***************************************************************************)
(* Further properties of the crawl (specification Spec).                   *)
(***************************************************************************)
\* the coordinator is between two results of the current subject's pool, or
\* past the loop
ResultProcessed ==
    pc \in {"pool_pull", "await_race", "abort_save", "abort_mark", "abort_exit",
            "pool_done", "complete_mark"}
ShardCount == Cardinality(DOMAIN subjectFiles[CurTerm][CurSubject].courses)

\* C12  Checkpoint cadence bound: whenever the coordinator has finished
\* processing a fetch result, the in-memory record map of the current
\* subject holds fewer than SUBJECT_SAVE_INTERVAL records more than the
\* subject's shard on disk.
C12_CadenceBound ==
    ResultProcessed =>
        Cardinality(DOMAIN coursesMap) - ShardCount < SUBJECT_SAVE_INTERVAL
\* an interval save has been made in this run and the loop goes on
C12_Witness ==
    /\ pc = "pool_pull"
    /\ Cardinality(succeeded) >= SUBJECT_SAVE_INTERVAL
    /\ lastSaveCount = Cardinality(DOMAIN coursesMap)
    /\ ShardCount = lastSaveCount


\* the attempt cap of the retry policy (backOff's numOfAttempts in
\* scrapeWithRetry, the earlier fetch wrapper)
numOfAttempts == 3

\* C13  Transient retry: no key is requested more than numOfAttempts times,
\* and a key whose result reaches the coordinator as failed by a rate limit
\* (429) has been requested numOfAttempts times.
C13_TransientRetried ==
    /\ \A k \in AllKeys : attempts[k] <= numOfAttempts
    /\ (pc = "process_result" /\ result.errorType = "429")
           => attempts[result.key] = numOfAttempts

\* C14  Hard-block and other errors are never retried: a 403 result reaches
\* the coordinator after exactly one request for its key, as a failure, with
\* abortRequested set; a result with an error that is neither 403 nor
\* transient reaches it after exactly one request, as a failure, with
\* abortRequested not set.
C14_NoRetryOfHardBlock ==
    pc = "process_result" =>
        /\ result.errorType = "403" =>
             /\ attempts[result.key] = 1
             /\ ~result.success
             /\ abortRequested
        /\ result.errorType = "error" =>
             /\ attempts[result.key] = 1
             /\ ~result.success
             /\ ~abortRequested
\* a 403 result is being processed after another key of the subject failed
\* with an error that did not abort
C14_Witness ==
    /\ pc = "process_result"
    /\ result.errorType = "403"
    /\ attempts[result.key] = 1
    /\ \E k \in fetchLog \ {result.key} :
           /\ k[1] = result.key[1]
           /\ k \notin succeeded
           /\ k \notin sleeping \cup fetching \cup DOMAIN settled


\* a term of this run that was aborted by a 403, or that the loop over the terms
\* left without completing it (an exception caught by main, or a skip)
AbortedTerm(t) ==
    /\ termIdx <= Len(termsToScrape) /\ t = CurTerm
    /\ \/ pc \in {"abort_save", "abort_mark", "abort_exit"}
       \/ pc = "exited" /\ exitCode = AbortExitCode
FailedTerm(t) ==
    /\ exitCode # 137
    /\ FirstIndexOf(termsToScrape, t) + 1 < termIdx
    /\ t \notin Range(completedTerms)

CheckpointRemoved(t) ==
    /\ \/ t \in Range(completedTerms)
       \/ termIdx <= Len(termsToScrape) /\ t = CurTerm /\ pc = "cleanup_progress"
    /\ \A s \in AllSubjects : ~subjectFiles[t][s].exists

\* C16: the progress file and the subject files of a term are removed only
\* once the term's merge and the promotion of index.json by this run have both
\* succeeded; when a later term fails or the promotion fails they are still on
\* disk.
C16_CheckpointLifecycle ==
    \A t \in TermCodes : CheckpointRemoved(t) => promoted


(***************************************************************************)
(* The crawl with writes that a kill cuts short.  fs.writeFileSync is not  *)
(* atomic: a process killed inside saveSubjectFile or saveProgress leaves  *)
(* a file that exists and does not parse.                                  *)
(***************************************************************************)
ShardWritePcs == {"interval_save", "abort_save", "pool_done"}
ProgressWritePcs == {"interval_mark", "abort_mark", "complete_mark"}

CrashInWrite ==
    /\ Fault(1)
    /\ \/ /\ pc \in ShardWritePcs
          /\ subjectFiles' = [subjectFiles EXCEPT ![CurTerm][CurSubject] =
                 [saveSubjectFile(coursesMap, generateTermDataCaches(writer))
                    EXCEPT !.parses = FALSE]]
          /\ UNCHANGED progressFile
       \/ /\ pc \in ProgressWritePcs
          /\ progressFile' = [progressFile EXCEPT ![CurTerm] =
                 [exists |-> TRUE, parses |-> FALSE, data |-> progress]]
          /\ UNCHANGED subjectFiles
    /\ pc' = "exited"
    /\ exitCode' = 137
    /\ ResetVolatile
    /\ UNCHANGED <<indexJson, indexTemp, termFiles, runs, indexAtStart, diskAtStart, promoted,
                   shardKeysAtStart>>

NextTorn == Next \/ CrashInWrite

SpecTorn == Init /\ [][NextTorn]_vars

Unparseable(file) == file.exists /\ ~file.parses

\* C17: a progress file that does not parse gives a new Progress Record
\* (zeroed stats, nothing completed, partial or failed); a subject file that
\* does not parse gives no records, its subject is not one the record lists as
\* completed, and the subject is fetched again from its first key.
C17_CorruptNotFatal ==
    /\ pc = "step1" /\ Unparseable(progressFile[CurTerm]) => progress = NewProgress
    /\ pc = "subj_loop" /\ subjIdx <= Len(subjects)
          /\ Unparseable(subjectFiles[CurTerm][CurSubject])
          => ~isSubjectCompleted(progress, CurSubject)
    /\ pc = "pool_pull" /\ nextItem = 1 /\ Unparseable(subjectFiles[CurTerm][CurSubject])
          => /\ coursesMap = EmptyMap
             /\ coursesToScrape = CoursesIn(CurSubject)
\* the second run enters a subject whose file the kill left unparseable
C17_Witness ==
    /\ pc = "pool_pull" /\ nextItem = 1 /\ runs = 2
    /\ Unparseable(subjectFiles[CurTerm][CurSubject])
    /\ Len(coursesToScrape) > 0


\* C18: after mergeAllSubjects, a record whose index in some category has no
\* entry in its own shard's table carries in that category an index that
\* denotes no value of the merged table (the unknown sentinel is such an
\* index), never the index of a value that came from another shard.
C18_MergeUnknownSentinel ==
    pc = "merged" =>
        LET m == termFiles[CurTerm] IN
        \A c \in Categories : \A s \in Shards :
            \A k \in DOMAIN subjectFiles[CurTerm][s].courses :
                ~Denotes(s, k, c) =>
                    LET g == IndexIn(c, m.courses[k]) IN
                    g < 0 \/ g >= Len(m.caches[c])


(***************************************************************************)
(* The round trip of a record through convertCourse and the website's      *)
(* decoder.  scrapeCourse gives every section the campus and the grade     *)
(* basis below; Section's constructor reads an index through its table and *)
(* falls back to 'unknown'.                                                *)
(***************************************************************************)
CampusOf(key) == "Urbana-Champaign"
GradeBaseOf(key) == "Letter Grade"
DecodeIndex(table, i) == IF i >= 0 /\ i < Len(table) THEN table[i + 1] ELSE "unknown"

\* the coordinator is inside scrapeSubjectCourses: coursesMap and the writer
\* are the ones of the current subject and term
PoolPcs == {"pool_pull", "await_race", "process_result", "interval_save", "interval_mark",
            "abort_save", "abort_mark", "abort_exit", "pool_done", "complete_mark"}

\* C19: for every record this run scraped and converted, decoding the
\* indices of its tuple through the writer's tables gives back the scraped
\* schedule type, campus and grade basis.
C19_LosslessRoundTrip ==
    pc \in PoolPcs =>
        \A k \in succeeded \cap DOMAIN coursesMap :
            LET c == coursesMap[k]
                t == generateTermDataCaches(writer) IN
            /\ DecodeIndex(t.scheduleTypes, c.scheduleTypeIndex) = ScheduleTypeOf(k)
            /\ DecodeIndex(t.campuses, c.campusIndex) = CampusOf(k)
            /\ DecodeIndex(t.gradeBases, c.gradeBasisIndex) = GradeBaseOf(k)


\* C20: a run that finds, for a term, a Progress Record holding a non-empty
\* subject list and a non-empty map of course lists issues neither a
\* subject-list request nor a course-list request for that term.
C20_DiscoveryCachedOnce ==
    \A t \in diskAtStart.cached :
        <<t, "subjects">> \notin discovered /\ <<t, "courses">> \notin discovered
\* a later run has taken both lists of a term from the record and is fetching
C20_Witness ==
    /\ runs > 1 /\ pc = "await_race"
    /\ CurTerm \in diskAtStart.cached
    /\ subjects = SiteSubjects(CurTerm)


(***************************************************************************)
(* One DataWriter session on its own (specification SpecWriter): a new     *)
(* DataWriter, optionally importCaches on it, then any sequence of the     *)
(* interning calls convertCourse makes.  A string is a sequence of         *)
(* characters; digits are the characters "0" .. "9".                       *)
(***************************************************************************)
DigitChars == <<"0", "1", "2", "3", "4", "5", "6", "7", "8", "9">>

\* Number.prototype.toString of a non-negative integer
RECURSIVE NumToString(_)
NumToString(n) ==
    IF n < 10 THEN <<DigitChars[n + 1]>>
    ELSE NumToString(n \div 10) \o <<DigitChars[(n % 10) + 1]>>

\* String.prototype.padStart(len, '0')
RECURSIVE PadStart(_, _)
PadStart(str, len) == IF Len(str) >= len THEN str ELSE PadStart(<<"0">> \o str, len)

\* variant: the value is not padded
minutesToHHMMUnpadded(minutes) == NumToString((minutes \div 60) * 100 + (minutes % 60))
\* minutesToHHMM: (hours * 100 + mins).toString().padStart(4, '0')
minutesToHHMM(minutes) == PadStart(NumToString((minutes \div 60) * 100 + (minutes % 60)), 4)

ARRANGED == <<"ARRANGED">>
TBA == <<"TBA">>

\* the string addPeriodToCache interns for (startTime, endTime)
PeriodKey(startTime, endTime) ==
    IF startTime = -1 \/ endTime = -1 THEN ARRANGED
    ELSE IF startTime = -2 \/ endTime = -2 THEN TBA
    ELSE minutesToHHMM(startTime) \o <<" - ">> \o minutesToHHMM(endTime)

\* addPeriodToCache: the index returned (indexOf / the linear search, else
\* the table's length) and the writer after the call
addPeriodToCacheIndex(w, startTime, endTime) ==
    LET key == PeriodKey(startTime, endTime) IN
    IF key \in Range(w.caches.periods)
    THEN FirstIndexOf(w.caches.periods, key)
    ELSE Len(w.caches.periods)
addPeriodToCache(w, startTime, endTime) ==
    LET key == PeriodKey(startTime, endTime) IN
    IF key \in Range(w.caches.periods)
    THEN w
    ELSE [w EXCEPT !.caches.periods = Append(@, key)]

\* findBuildingLocation (locations.ts): the coordinates of the room's
\* building, or null for a room whose building it does not know
Rooms == {"", "Siebel Center 1404", "Siebel Center 0216", "Everitt Lab 2", "Remote Hall 1"}
findBuildingLocation(room) ==
    CASE room \in {"Siebel Center 1404", "Siebel Center 0216"} ->
             [lat |-> "40.1138", long |-> "-88.2249"]
      [] room = "Everitt Lab 2" -> [lat |-> "40.1109", long |-> "-88.2284"]
      [] OTHER -> [lat |-> "null", long |-> "null"]

\* addLocationToCache: findIndex by lat and long, else push
addLocationToCacheIndex(w, room) ==
    LET location == findBuildingLocation(room) IN
    IF location \in Range(w.caches.locations)
    THEN FirstIndexOf(w.caches.locations, location)
    ELSE Len(w.caches.locations)
addLocationToCache(w, room) ==
    LET location == findBuildingLocation(room) IN
    IF location \in Range(w.caches.locations)
    THEN w
    ELSE [w EXCEPT !.caches.locations = Append(@, location)]

\* new DataWriter(), with the period and location tables
SessionWriter ==
    [cacheBuilder |-> NewDataWriter.cacheBuilder,
     caches |-> [periods |-> <<>>, locations |-> <<>>, scheduleTypes |-> <<>>,
                 campuses |-> <<>>, gradeBases |-> <<>>]]


\* the lookup Map importCaches rebuilds: values.forEach((value, index) => set(value, index))
LookupOf(values) ==
    [v \in Range(values) |->
        (CHOOSE i \in 1..Len(values) :
            values[i] = v /\ \A j \in (i + 1)..Len(values) : values[j] # v) - 1]

\* variant: the tables are copied and the lookup Maps are left as they were
importCachesTablesOnly(w, existingCaches) ==
    [cacheBuilder |-> w.cacheBuilder, caches |-> existingCaches]
\* importCaches
importCaches(w, existingCaches) ==
    [cacheBuilder |-> [scheduleTypes |-> LookupOf(existingCaches.scheduleTypes),
                       campuses |-> LookupOf(existingCaches.campuses)],
     caches |-> existingCaches]

\* (startTime, endTime) pairs: arranged, unknown, both, and timed ones
PeriodInputs == {<<-1, -1>>, <<720, -1>>, <<-2, 720>>, <<-2, -1>>,
                 <<5, 720>>, <<720, 5>>, <<720, 1439>>}
\* the caches of an earlier session, as generateTermData returns them
CachesOf(n) ==
    {[periods |-> p, locations |-> l, scheduleTypes |-> st, campuses |-> <<>>,
      gradeBases |-> <<>>] :
        p \in TablesOver({PeriodKey(i[1], i[2]) : i \in PeriodInputs}, n),
        l \in TablesOver({findBuildingLocation(r) : r \in Rooms}, n),
        st \in TablesOver(ScheduleTypes, n)}

InitWriter ==
    /\ indexJson = [exists |-> TRUE, terms |-> <<"t0">>]
    /\ indexTemp = NoIndex
    /\ progressFile = [t \in TermCodes |-> NoProgressFile]
    /\ subjectFiles = [t \in TermCodes |-> [s \in AllSubjects |-> NoSubjectFile]]
    /\ termFiles = [t \in TermCodes |-> NoTermFile]
    /\ pc = "writer" /\ exitCode = -1 /\ runs = 1
    /\ termIdx = 1 /\ subjIdx = 1 /\ completedTerms = <<>> /\ anyTermFailed = FALSE
    /\ progress = NewProgress /\ subjects = <<>> /\ subjectCourseMap = EmptyMap
    /\ writer = SessionWriter
    /\ PoolInit
    /\ indexAtStart = indexJson /\ promoted = FALSE
    /\ diskAtStart = DiskSummary(termFiles, progressFile)
    /\ discovered = {}
    /\ fetchLog = {} /\ attempts = NoAttempts /\ fetchedAfterAbort = FALSE /\ succeeded = {}
    /\ lastOp = "none"
    /\ shardKeysAtStart = [t \in TermCodes |-> [s \in AllSubjects |-> {}]]
    /\ faults = 0

\* a call on the DataWriter: the writer after it; the tables stay within MaxTable
WriterCall(w) ==
    /\ pc \in {"writer", "imported"}
    /\ \A c \in DOMAIN w.caches : Len(w.caches[c]) <= MaxTable
    /\ writer' = w
    /\ UNCHANGED <<disk, exitCode, runs, termIdx, subjIdx, completedTerms, anyTermFailed,
                   progress, subjects, subjectCourseMap, poolv, hist, faults>>

EncodePeriod(startTime, endTime) ==
    WriterCall(addPeriodToCache(writer, startTime, endTime)) /\ UNCHANGED pc
EncodeLocation(room) ==
    WriterCall(addLocationToCache(writer, room)) /\ UNCHANGED pc
EncodeScheduleType(value) ==
    WriterCall(addToCache(writer, value)) /\ UNCHANGED pc
ImportCaches ==
    /\ pc = "writer" /\ writer = SessionWriter
    /\ \E existingCaches \in CachesOf(MaxTable) :
          WriterCall(importCaches(writer, existingCaches))
    /\ pc' = "imported"

NextWriter ==
    \/ \E i \in PeriodInputs : EncodePeriod(i[1], i[2])
    \/ \E r \in Rooms : EncodeLocation(r)
    \/ \E v \in ScheduleTypes : EncodeScheduleType(v)
    \/ ImportCaches

SpecWriter == InitWriter /\ [][NextWriter]_vars


IsPrefix(a, b) == Len(a) <= Len(b) /\ \A i \in 1..Len(a) : a[i] = b[i]

\* C21: in a DataWriter session every call leaves each table a prefix of
\* what it becomes (append-only); a value that has an index keeps that index
\* and the index keeps denoting the value; and encoding a value a second time
\* returns the index the first encoding returned.
C21_IndexStability ==
    [][ /\ \A c \in {"periods", "locations", "scheduleTypes"} :
              IsPrefix(writer.caches[c], writer'.caches[c])
        /\ \A v \in ScheduleTypes :
              /\ v \in Range(writer.caches.scheduleTypes) =>
                    /\ addToCacheIndex(writer', v) = addToCacheIndex(writer, v)
                    /\ writer'.caches.scheduleTypes[addToCacheIndex(writer, v) + 1] = v
              /\ addToCacheIndex(addToCache(writer, v), v) = addToCacheIndex(writer, v)
        /\ \A i \in PeriodInputs :
              /\ PeriodKey(i[1], i[2]) \in Range(writer.caches.periods) =>
                    /\ addPeriodToCacheIndex(writer', i[1], i[2])
                          = addPeriodToCacheIndex(writer, i[1], i[2])
                    /\ writer'.caches.periods[addPeriodToCacheIndex(writer, i[1], i[2]) + 1]
                          = PeriodKey(i[1], i[2])
              /\ addPeriodToCacheIndex(addPeriodToCache(writer, i[1], i[2]), i[1], i[2])
                    = addPeriodToCacheIndex(writer, i[1], i[2])
        /\ \A r \in Rooms :
              /\ findBuildingLocation(r) \in Range(writer.caches.locations) =>
                    /\ addLocationToCacheIndex(writer', r) = addLocationToCacheIndex(writer, r)
                    /\ writer'.caches.locations[addLocationToCacheIndex(writer, r) + 1]
                          = findBuildingLocation(r)
              /\ addLocationToCacheIndex(addLocationToCache(writer, r), r)
                    = addLocationToCacheIndex(writer, r)
      ]_vars
\* a session whose tables hold several values each
C21_Witness ==
    /\ pc = "writer"
    /\ Len(writer.caches.periods) = MaxTable
    /\ Len(writer.caches.scheduleTypes) = MaxTable
    /\ Len(writer.caches.locations) = MaxTable


(***************************************************************************)
(* scrapeSubjectCourses on its own (specification SpecPool): main has      *)
(* reached the subject loop of the first term with the one subject D,      *)
(* whose keys outnumber CONCURRENCY; no kill, no restart.                  *)
(***************************************************************************)
InitPool ==
    LET lists == ("D" :> SiteCourseList("D"))
        p == updateTotals(cacheCourseLists(cacheSubjects(NewProgress, <<"D">>), lists),
                          1, NumKeys("D"))
    IN
    /\ indexJson = [exists |-> TRUE, terms |-> <<"t0">>]
    /\ indexTemp = writeIndexTemp(termsToScrape)
    /\ progressFile = [t \in TermCodes |->
                          IF t = "t1" THEN saveProgress(NoProgressFile, p, "updateTotals")
                          ELSE NoProgressFile]
    /\ subjectFiles = [t \in TermCodes |-> [s \in AllSubjects |-> NoSubjectFile]]
    /\ termFiles = [t \in TermCodes |-> NoTermFile]
    /\ pc = "subj_loop" /\ exitCode = -1 /\ runs = 1
    /\ termIdx = 1 /\ subjIdx = 1 /\ completedTerms = <<>> /\ anyTermFailed = FALSE
    /\ progress = p /\ subjects = <<"D">> /\ subjectCourseMap = lists
    /\ writer = NewDataWriter
    /\ PoolInit
    /\ indexAtStart = indexJson /\ promoted = FALSE
    /\ diskAtStart = DiskSummary(termFiles, [t \in TermCodes |-> NoProgressFile])
    /\ discovered = {<<"t1", "subjects">>, <<"t1", "courses">>}
    /\ fetchLog = {} /\ attempts = NoAttempts /\ fetchedAfterAbort = FALSE /\ succeeded = {}
    /\ lastOp = "updateTotals"
    /\ shardKeysAtStart = [t \in TermCodes |-> [s \in AllSubjects |-> {}]]
    /\ faults = 0

NextPool ==
    \/ pc = "subj_loop" /\ subjIdx <= Len(subjects) /\ NextSubject
    \/ PoolPull
    \/ \E k \in AllKeys : TimerFire(k)
    \/ \E k \in AllKeys, o \in Outcomes : Response(k, o)
    \/ ProcessResult
    \/ IntervalSave
    \/ IntervalMark
    \/ AbortSave
    \/ AbortMark
    \/ AbortExit
    \/ FinalSave
    \/ CompleteMark

SpecPool == InitPool /\ [][NextPool]_vars


SoftFailures == {"429", "error"}

\* C22: a fetch that ends in a failure other than a 403 leaves the abort flag
\* as it was; processing that result records exactly one failure and, with
\* no abort requested, goes on to pull the next result; and a pool that ends
\* without abort has requested every key of the subject and processed every
\* result.
C22_FailureDoesNotStop ==
    [][ /\ (pc = "await_race" /\ pc' = "process_result"
                /\ result'.errorType \in SoftFailures)
              => abortRequested' = abortRequested
        /\ (pc = "process_result" /\ pc' # "exited"
                /\ result.errorType \in SoftFailures)
              => /\ progress'.stats.failedCourses = progress.stats.failedCourses + 1
                 /\ abortRequested' = abortRequested
                 /\ ~abortRequested => pc' = "pool_pull"
        /\ pc = "pool_done"
              => /\ \A i \in 1..Len(coursesToScrape) : attempts[coursesToScrape[i]] = 1
                 /\ Executing = {}
                 /\ succeeded \subseteq DOMAIN coursesMap
      ]_vars
\* the first key of a subject failed, and the key that was dispatched only
\* after that failure has been fetched and recorded
C22_Witness ==
    /\ pc = "pool_done" /\ ~abortRequested
    /\ Len(coursesToScrape) > CONCURRENCY
    /\ coursesToScrape[1] \notin succeeded
    /\ coursesToScrape[Len(coursesToScrape)] \in DOMAIN coursesMap


\* C23: at most CONCURRENCY tasks are dispatched and not yet settled, and a
\* task is dispatched (nextItem advances, a pacing delay starts) only in the
\* step in which the coordinator pulls the next result.
C23_BoundedConcurrency ==
    [][ /\ Cardinality(sleeping \cup fetching) <= CONCURRENCY
        /\ Cardinality(Executing) <= CONCURRENCY
        /\ (nextItem' > nextItem \/ ~(sleeping' \subseteq sleeping)) => pc = "pool_pull"
      ]_vars
\* the pool is full and a key of the subject is still waiting to be dispatched
C23_Witness ==
    /\ pc = "await_race"
    /\ Cardinality(sleeping \cup fetching) = CONCURRENCY
    /\ nextItem <= Len(coursesToScrape)


\* C24: the steps of the worker tasks (a pacing delay ending, a response
\* arriving; they happen only while the coordinator is suspended in the
\* race) leave the Progress Record, the record map, the writer and the files
\* unchanged, and no step writes the shard and the progress file together.
C24_SingleWriter ==
    [][ /\ pc = "await_race" =>
              UNCHANGED <<progress, coursesMap, writer, subjectFiles, progressFile, termFiles>>
        /\ (sleeping' # sleeping \/ fetching' # fetching) => pc \in {"await_race", "pool_pull"}
        /\ subjectFiles' = subjectFiles \/ progressFile' = progressFile
      ]_vars
\* a record has been stored while two other requests are in flight
C24_Witness ==
    /\ pc = "await_race"
    /\ Cardinality(fetching) = CONCURRENCY
    /\ DOMAIN coursesMap # {}


\* C25: right after the final save of a finished pool, and right after the
\* save of the abort handler, the shard on disk holds exactly the keys of the
\* record map in memory and its courseCount is the number of those keys.
C25_FinalSaveComplete ==
    pc \in {"complete_mark", "abort_mark"} =>
        LET file == subjectFiles[CurTerm][CurSubject] IN
        /\ file.exists
        /\ DOMAIN file.courses = DOMAIN coursesMap
        /\ file.courses = coursesMap
        /\ file.courseCount = Cardinality(DOMAIN coursesMap)
\* the pool finished with records stored since the last interval save
C25_Witness ==
    /\ pc = "complete_mark"
    /\ lastSaveCount > 0
    /\ Cardinality(DOMAIN coursesMap) > lastSaveCount


(***************************************************************************)
(* Progress of the pool.  The steps of the program itself (the coordinator *)
(* and the pacing timers) are fair; the answer of the server to a request  *)
(* is not a step of the program, and scrapeCourse passes axios.get no      *)
(* timeout, so nothing in the program ends a request the server leaves     *)
(* unanswered.                                                             *)
(***************************************************************************)
ProgramStep ==
    \/ pc = "subj_loop" /\ subjIdx <= Len(subjects) /\ NextSubject
    \/ PoolPull
    \/ \E k \in AllKeys : TimerFire(k)
    \/ ProcessResult
    \/ IntervalSave
    \/ IntervalMark
    \/ AbortSave
    \/ AbortMark
    \/ AbortExit
    \/ FinalSave
    \/ CompleteMark

SpecPoolLive == InitPool /\ [][NextPool]_vars /\ WF_vars(ProgramStep)

\* what a per-request timeout would give: every request is answered or ends
SpecPoolAnswered ==
    SpecPoolLive /\ WF_vars(\E k \in AllKeys, o \in Outcomes : Response(k, o))

\* C26: every request in flight eventually settles, and a subject whose pool
\* has started eventually reaches its completion mark or the abort exit.
C26_EveryFetchSettles ==
    /\ \A k \in AllKeys : (k \in fetching) ~> (k \notin fetching)
    /\ (pc = "pool_pull") ~> (pc \in {"complete_mark", "exited"})


(***************************************************************************)
(* mergeAllSubjects over a shard directory in which a key occurs in two    *)
(* shards (specification SpecMergeOverlap): the shard of B also holds a    *)
(* record under the key of A's record.                                     *)
(***************************************************************************)
OverlapShardsOf(s, key) ==
    {[b EXCEPT !.courseCount = 2,
               !.courses = b.courses @@ (key :> [scheduleTypeIndex |-> j, campusIndex |-> 0,
                                                 gradeBasisIndex |-> -1])] :
        b \in ShardsOf(s), j \in 0..(MaxTable - 1)}

InitMergeOverlap ==
    /\ indexJson = [exists |-> TRUE, terms |-> <<"t0">>]
    /\ indexTemp = NoIndex
    /\ progressFile = [t \in TermCodes |-> NoProgressFile]
    /\ \E a \in ShardsOf("A"), b \in OverlapShardsOf("B", <<"A", 1>>) :
         subjectFiles = [t \in TermCodes |-> [s \in AllSubjects |->
                            IF t = "t1" /\ s = "A" THEN a
                            ELSE IF t = "t1" /\ s = "B" THEN b
                            ELSE NoSubjectFile]]
    /\ termFiles = [t \in TermCodes |-> NoTermFile]
    /\ pc = "merge" /\ exitCode = -1 /\ runs = 1
    /\ MainInit /\ PoolInit
    /\ indexAtStart = indexJson /\ promoted = FALSE
    /\ diskAtStart = DiskSummary(termFiles, progressFile)
    /\ discovered = {}
    /\ fetchLog = {} /\ attempts = NoAttempts /\ fetchedAfterAbort = FALSE /\ succeeded = {}
    /\ lastOp = "none"
    /\ shardKeysAtStart = [t \in TermCodes |-> [s \in AllSubjects |-> {}]]
    /\ faults = 0

SpecMergeOverlap == InitMergeOverlap /\ [][NextMerge]_vars

\* the shards that hold key k, and the one of them processed last
HoldersOf(k) == {s \in Shards : k \in DOMAIN subjectFiles[CurTerm][s].courses}
LastHolderOf(k) ==
    CHOOSE s \in HoldersOf(k) :
        \A r \in HoldersOf(k) : FirstIndexOf(SubjectOrder, r) <= FirstIndexOf(SubjectOrder, s)

\* C27: the merged record map has as keys exactly the keys of all shards, and
\* under a key that two shards hold it carries the record of the shard
\* processed later: its index denotes, in the merged table, the value that
\* the later shard's record denoted in that shard's table.
C27_MergedRecordMap ==
    pc = "merged" =>
        LET m == termFiles[CurTerm] IN
        /\ DOMAIN m.courses = UNION {DOMAIN subjectFiles[CurTerm][s].courses : s \in Shards}
        /\ \A k \in DOMAIN m.courses :
             Denotes(LastHolderOf(k), k, "scheduleTypes") =>
                 LET g == m.courses[k].scheduleTypeIndex IN
                 /\ g >= 0 /\ g < Len(m.caches.scheduleTypes)
                 /\ m.caches.scheduleTypes[g + 1]
                      = ShardValue(LastHolderOf(k), k, "scheduleTypes")
\* both shards hold the key of A's record, with records of different schedule
\* types, and the merge has been made
C27_Witness ==
    /\ pc = "merged"
    /\ HoldersOf(<<"A", 1>>) = {"A", "B"}
    /\ Denotes("A", <<"A", 1>>, "scheduleTypes")
    /\ Denotes("B", <<"A", 1>>, "scheduleTypes")
    /\ ShardValue("A", <<"A", 1>>, "scheduleTypes") # ShardValue("B", <<"A", 1>>, "scheduleTypes")
    /\ DOMAIN termFiles["t1"].courses = {<<"A", 1>>, <<"B", 1>>}


\* the four digits of a minute of the day: tens and units of the hour, tens
\* and units of the minute
FourDigits(m) ==
    <<DigitChars[(m \div 600) + 1], DigitChars[((m \div 60) % 10) + 1],
      DigitChars[((m % 60) \div 10) + 1], DigitChars[(m % 10) + 1]>>
MinutesOfDay == 0..1439

C29_RateLimitAccounting ==
    [][ /\ (pc = "await_race" /\ pc' = "process_result" /\ result'.errorType = "429")
              => (abortRequested' = abortRequested /\ progress' = progress)
        /\ (pc = "process_result" /\ result.errorType = "429")
              => /\ progress'.stats.rateLimitCount = progress.stats.rateLimitCount + 1
                 /\ abortRequested' = abortRequested
                 /\ (~abortRequested => pc' = "pool_pull")
        /\ progress'.stats.rateLimitCount # progress.stats.rateLimitCount
              => (pc = "process_result" /\ result.errorType = "429")
      ]_vars
\* the pool finished without abort after as many rate limits as the
\* environment may produce, and the request dispatched after them succeeded
C29_Witness ==
    /\ pc = "pool_done" /\ ~abortRequested
    /\ progress.stats.rateLimitCount = MaxFaults
    /\ coursesToScrape[Len(coursesToScrape)] \in DOMAIN coursesMap


\* C30: on a writer that imported the caches of an earlier session, encoding
\* a value that a table holds returns the index the value has in that table
\* and leaves the table as it is, and encoding a value that the table does
\* not hold returns the table's length and appends the value there; this for
\* the schedule types (looked up in the rebuilt Map), the periods and the
\* locations (searched in the copied tables).
C30_ImportRestoresEncoder ==
    pc = "imported" =>
        /\ \A v \in ScheduleTypes :
             LET t == writer.caches.scheduleTypes
                 idx == addToCacheIndex(writer, v)
                 t2 == addToCache(writer, v).caches.scheduleTypes
             IN  IF v \in Range(t)
                 THEN idx >= 0 /\ idx < Len(t) /\ t[idx + 1] = v /\ t2 = t
                 ELSE idx = Len(t) /\ t2 = Append(t, v)
        /\ \A p \in PeriodInputs :
             LET t == writer.caches.periods
                 v == PeriodKey(p[1], p[2])
                 idx == addPeriodToCacheIndex(writer, p[1], p[2])
                 t2 == addPeriodToCache(writer, p[1], p[2]).caches.periods
             IN  IF v \in Range(t)
                 THEN idx >= 0 /\ idx < Len(t) /\ t[idx + 1] = v /\ t2 = t
                 ELSE idx = Len(t) /\ t2 = Append(t, v)
        /\ \A r \in Rooms :
             LET t == writer.caches.locations
                 v == findBuildingLocation(r)
                 idx == addLocationToCacheIndex(writer, r)
                 t2 == addLocationToCache(writer, r).caches.locations
             IN  IF v \in Range(t)
                 THEN idx >= 0 /\ idx < Len(t) /\ t[idx + 1] = v /\ t2 = t
                 ELSE idx = Len(t) /\ t2 = Append(t, v)
\* the imported schedule types are Laboratory and Lecture, so that Lecture is
\* found at index 1, and periods and locations were imported too
C30_Witness ==
    /\ pc = "imported"
    /\ writer.caches.scheduleTypes = <<"Laboratory", "Lecture">>
    /\ addToCacheIndex(writer, "Lecture") = 1
    /\ Len(writer.caches.periods) = MaxTable
    /\ Len(writer.caches.locations) = 1


\* the keys a shard file holds for a reader (none when absent or unreadable)
KeysOnDisk(file) == IF file.exists /\ file.parses THEN DOMAIN file.courses ELSE {}

\* C31: no step other than the cleanup of the term's subjects directory
\* makes the key set of a shard on disk smaller, within a run and from one
\* run to the next.
C31_ShardMonotone ==
    [][ pc # "cleanup" =>
            \A t \in TermCodes, s \in AllSubjects :
                KeysOnDisk(subjectFiles[t][s]) \subseteq KeysOnDisk(subjectFiles'[t][s])
      ]_vars
\* a resumed run has written the shard of a subject again, with the key
\* persisted by the run before and a key of its own
C31_Witness ==
    /\ runs = 2
    /\ pc \in {"interval_mark", "abort_mark", "complete_mark"}
    /\ shardKeysAtStart[CurTerm][CurSubject] # {}
    /\ shardKeysAtStart[CurTerm][CurSubject] # KeysOnDisk(subjectFiles[CurTerm][CurSubject])
    /\ shardKeysAtStart[CurTerm][CurSubject] \subseteq KeysOnDisk(subjectFiles[CurTerm][CurSubject])


\* C32: in every state, whatever the process was doing when it was killed,
\* a readable progress file claims no more than the shards hold: a subject
\* it lists as partial with completed count k has a shard with at least k
\* records, and a subject with a non-empty key list that it lists as
\* completed has its shard.
C32_ShardBeforeMarker ==
    \A t \in TermCodes :
        (progressFile[t].exists /\ progressFile[t].parses) =>
            LET p == progressFile[t].data IN
            \A s \in AllSubjects :
                /\ s \in DOMAIN p.partialSubjects =>
                       Cardinality(KeysOnDisk(subjectFiles[t][s])) >= p.partialSubjects[s].completed
                /\ (s \in Range(p.completedSubjects)
                        /\ s \in DOMAIN p.subjectCourseLists
                        /\ Len(p.subjectCourseLists[s]) > 0) =>
                       (subjectFiles[t][s].exists /\ subjectFiles[t][s].parses)


Injective(t) == \A i, j \in 1..Len(t) : t[i] = t[j] => i = j

\* C33: after any sequence of encoding calls on one writer, no table holds
\* two equal entries (so at most one ARRANGED and one TBA period, and no two
\* locations with the same coordinates), and the lookup Map of the schedule
\* types agrees with their table: as many keys as entries, and the entry at
\* the index of a value is that value.
C33_TablesInjectiveInSync ==
    /\ Injective(writer.caches.periods)
    /\ Injective(writer.caches.locations)
    /\ Injective(writer.caches.scheduleTypes)
    /\ \A i, j \in 1..Len(writer.caches.locations) :
          (writer.caches.locations[i].lat = writer.caches.locations[j].lat
             /\ writer.caches.locations[i].long = writer.caches.locations[j].long) => i = j
    /\ Cardinality({i \in 1..Len(writer.caches.periods) : writer.caches.periods[i] = ARRANGED}) <= 1
    /\ Cardinality({i \in 1..Len(writer.caches.periods) : writer.caches.periods[i] = TBA}) <= 1
    /\ LET map == writer.cacheBuilder.scheduleTypes
           table == writer.caches.scheduleTypes
       IN  /\ Cardinality(DOMAIN map) = Len(table)
           /\ DOMAIN map = Range(table)
           /\ \A v \in DOMAIN map : map[v] >= 0 /\ map[v] < Len(table) /\ table[map[v] + 1] = v
\* a writer that was never given caches holds the arranged and the unknown
\* period, the location without coordinates and one with, and two schedule
\* types
C33_Witness ==
    /\ pc = "writer"
    /\ writer.caches.periods = <<TBA, ARRANGED>>
    /\ Len(writer.caches.locations) = MaxTable
    /\ findBuildingLocation("Remote Hall 1") \in Range(writer.caches.locations)
    /\ writer.caches.scheduleTypes = <<"Discussion", "Lecture">>


\* the subjects a term's progress file lists as completed
CompletedOnDisk(file) ==
    IF file.exists /\ file.parses THEN file.data.completedSubjects ELSE <<>>

\* C34: a subject that a progress file lists as completed stays listed by
\* every later step that leaves the file in place, it is listed at most
\* once, and no task is started for a key of a subject that the progress
\* file of the term lists as completed.
C34_CompletedIsTerminal ==
    [][ /\ \A t \in TermCodes :
             /\ progressFile'[t].exists =>
                   Range(CompletedOnDisk(progressFile[t]))
                       \subseteq Range(CompletedOnDisk(progressFile'[t]))
             /\ Injective(CompletedOnDisk(progressFile'[t]))
        /\ \A k \in (sleeping' \cup fetching') \ (sleeping \cup fetching) :
             /\ k[1] \notin Range(CompletedOnDisk(progressFile[CurTerm]))
             /\ ~isSubjectCompleted(progress, k[1])
      ]_vars
\* in a second run a request for B is in flight while the progress file
\* lists A as completed and the shard of A lacks a key of A's list
C34_Witness ==
    /\ runs = 2 /\ pc = "await_race"
    /\ CurTerm = "t1" /\ CurSubject = "B"
    /\ fetching # {}
    /\ "A" \in Range(CompletedOnDisk(progressFile["t1"]))
    /\ Range(SiteCourseList("A")) \ KeysOnDisk(subjectFiles["t1"]["A"]) # {}


\* C35: when the pool of a subject has ended without abort, every key of the
\* remaining-work list was dispatched and requested once, no task is asleep
\* or in flight and no result waits to be consumed; and wherever the
\* coordinator stands at the top of the subject loop, where the abort flag
\* of the next subject is reset, no task of an earlier subject is left.
C35_PoolDrains ==
    /\ pc \in {"pool_done", "complete_mark"} =>
          /\ ~abortRequested
          /\ nextItem = Len(coursesToScrape) + 1
          /\ sleeping = {} /\ fetching = {} /\ DOMAIN settled = {}
          /\ \A i \in 1..Len(coursesToScrape) : attempts[coursesToScrape[i]] = 1
    /\ pc = "subj_loop" =>
          (sleeping = {} /\ fetching = {} /\ DOMAIN settled = {} /\ ~abortRequested)
\* the coordinator is back at the top of the subject loop for the second
\* subject, after a pool that requested both keys of the first
C35_Witness ==
    /\ pc = "subj_loop" /\ subjIdx = 2 /\ CurTerm = "t1"
    /\ nextItem = MaxKeys + 1
    /\ \A k \in Range(SiteCourseList("A")) : attempts[k] = 1


\* the orders in which readdirSync may list the shard files
ShardOrders ==
    {o \in [1..Len(SubjectOrder) -> AllSubjects] : \A i, j \in DOMAIN o : o[i] = o[j] => i = j}
\* the merged dataset as a reader decodes it: every categorical index
\* replaced by the value it denotes in the merged tables
DecodedContent(m) ==
    [k \in DOMAIN m.courses |->
        [c \in Categories |-> DecodeIndex(m.caches[c], IndexIn(c, m.courses[k]))]]

\* C36: the shards of the directory have pairwise disjoint keys, and the
\* decoded content of their merge is the same for every order in which the
\* files are processed.
C36_MergeOrderIndependent ==
    pc = "merged" =>
        \A o \in ShardOrders :
            DecodedContent(mergeAllSubjects(subjectFiles[CurTerm], o))
                = DecodedContent(termFiles[CurTerm])
\* the same, for shards whose records all carry indices that denote a value
\* of the shard's own table or are negative
C36_OrderIndependentWhenDenoting ==
    (pc = "merged"
        /\ \A s \in Shards : \A k \in DOMAIN subjectFiles[CurTerm][s].courses :
             \A c \in Categories :
                Denotes(s, k, c) \/ IndexIn(c, subjectFiles[CurTerm][s].courses[k]) < 0) =>
        \A o \in ShardOrders :
            DecodedContent(mergeAllSubjects(subjectFiles[CurTerm], o))
                = DecodedContent(termFiles[CurTerm])


\* C37: a subject that a progress file lists as completed under an empty
\* key list is a subject for which the site has no keys, that is, one whose
\* key-list request was answered and returned none; a subject whose
\* key-list request failed is not listed as completed.
C37_EmptyCompletionDiscovered ==
    \A t \in TermCodes :
        (progressFile[t].exists /\ progressFile[t].parses) =>
            LET p == progressFile[t].data IN
            \A s \in Range(CompletedOnDisk(progressFile[t])) :
                (s \in DOMAIN p.subjectCourseLists /\ Len(p.subjectCourseLists[s]) = 0)
                    => Len(SiteCourseList(s)) = 0

=============================================================================
